---- MODULE Spec2Model ----
(***************************************************************************)
(* The retrieval-corpus code of ui_elements.py: manage_corpus (list,       *)
(* rename, delete, create), create_corpus_from_files,                      *)
(* create_corpus_from_text and get_corpus_context_from_db, over the        *)
(* directory "corpus" and the library calls they make                      *)
(* (CharacterTextSplitter, OllamaEmbeddings, Chroma); get_corpus_context   *)
(* over the folder "files" and the collection under "./chroma_db"; and     *)
(* remove_model_ui over the models the Ollama server has installed.        *)
(*                                                                         *)
(* A text is a sequence of one-character strings.  A Chroma collection is  *)
(* a bag of segment texts: from_documents gives every added text a fresh   *)
(* id, so adding a text twice stores it twice.                             *)
(***************************************************************************)
EXTENDS Bags, FiniteSets, Integers, Sequences, TLC

VARIABLES
    disk,           \* corpus name -> what is under corpus/<name>
    rename_corpus,  \* session -> st.session_state.rename_corpus
    last,           \* what the most recent script run or call did
    rt,             \* history: the most recent successful build and a delete after it
    chroma_empty_ok,\* whether the installed Chroma accepts an add of no texts
    chunk_in,       \* the splitter's input  (text, chunk_size, chunk_overlap)
    chunk_out,      \* the splitter's output
    chroma_db,      \* the texts stored in the collection under ./chroma_db
    ctx,            \* what the most recent get_corpus_context call did
    build,          \* the "Create Corpus from Files" handler, statement by statement
    ollama_models,  \* the models installed on the Ollama server
    models_cache,   \* the memoized result of get_available_models()
    session_state,  \* st.session_state as remove_model_ui uses it
    mrun            \* what the most recent run of remove_model_ui did

managerVars == <<disk, rename_corpus, last, rt>>
chunkVars == <<chunk_in, chunk_out>>
contextVars == <<chroma_db, ctx>>
modelVars == <<ollama_models, models_cache, session_state, mrun>>
otherVars == <<contextVars, build, modelVars>>

vars == <<disk, rename_corpus, last, rt, chroma_empty_ok, chunk_in, chunk_out,
          chroma_db, ctx, build, ollama_models, models_cache, session_state,
          mrun>>

(***************************************************************************)
(* Bounds.                                                                 *)
(***************************************************************************)
MaxEntries == 4     \* texts stored in the corpus folder
MaxLen == 7         \* characters of a text given to the splitter alone
MaxChunk == 4       \* chunk_size given to the splitter alone

(***************************************************************************)
(* Program constants.                                                      *)
(***************************************************************************)
ChunkSize == 1000
ChunkOverlap == 0
TopK == 3

NL == "\n"
SP == " "
Whitespace == {NL, SP}
Separator == <<NL, NL>>

(***************************************************************************)
(* CharacterTextSplitter(chunk_size, chunk_overlap).split_text(text), with *)
(* the class defaults separator = "\n\n", keep_separator = False,          *)
(* strip_whitespace = True, length_function = len.                         *)
(***************************************************************************)

\* The first position at which sep occurs in text, 0 when it does not.
FirstMatch(text, sep) ==
    LET hits == {i \in 1..(Len(text) - Len(sep) + 1) :
                    SubSeq(text, i, i + Len(sep) - 1) = sep}
    IN  IF hits = {} THEN 0 ELSE CHOOSE i \in hits : \A j \in hits : i <= j

\* re.split(re.escape(sep), text): leftmost non-overlapping matches.
RECURSIVE re_split(_, _)
re_split(text, sep) ==
    LET i == FirstMatch(text, sep)
    IN  IF i = 0 THEN <<text>>
        ELSE <<SubSeq(text, 1, i - 1)>>
             \o re_split(SubSeq(text, i + Len(sep), Len(text)), sep)

\* _split_text_with_regex, keep_separator False: the non-empty pieces.
split_text_with_regex(text, sep) ==
    SelectSeq(re_split(text, sep), LAMBDA s : s # <<>>)

\* str.strip()
RECURSIVE lstrip(_)
lstrip(t) ==
    IF t # <<>> /\ Head(t) \in Whitespace THEN lstrip(Tail(t)) ELSE t

RECURSIVE rstrip(_)
rstrip(t) ==
    IF t # <<>> /\ t[Len(t)] \in Whitespace
    THEN rstrip(SubSeq(t, 1, Len(t) - 1)) ELSE t

strip(t) == rstrip(lstrip(t))

\* separator.join(docs)
RECURSIVE join(_, _)
join(docs, sep) ==
    IF docs = <<>> THEN <<>>
    ELSE IF Len(docs) = 1 THEN docs[1]
    ELSE docs[1] \o sep \o join(Tail(docs), sep)

\* A join that keeps only the first piece of the window.
join_docs_first(docs, sep) ==
    LET text == IF docs = <<>> THEN <<>> ELSE strip(docs[1])
    IN  IF text = <<>> THEN <<>> ELSE <<text>>

\* _join_docs: the stripped join, as a list of zero or one chunk (None is <<>>).
join_docs(docs, sep) ==
    LET text == strip(join(docs, sep))
    IN  IF text = <<>> THEN <<>> ELSE <<text>>

\* The inner while loop of _merge_splits: drop pieces from the front of
\* current_doc while the window is larger than the overlap, or too long
\* to take the next piece.
RECURSIVE pop_window(_, _, _, _, _, _)
pop_window(cur, total, len, seplen, size, overlap) ==
    IF cur # <<>> /\
       (total > overlap
        \/ (total + len + (IF Len(cur) > 0 THEN seplen ELSE 0) > size /\ total > 0))
    THEN pop_window(Tail(cur),
                    total - (Len(cur[1]) + (IF Len(cur) > 1 THEN seplen ELSE 0)),
                    len, seplen, size, overlap)
    ELSE [cur |-> cur, total |-> total]

\* _merge_splits: the for loop over the pieces, then the last window.
RECURSIVE merge_splits(_, _, _, _, _, _, _)
merge_splits(splits, sep, size, overlap, docs, cur, total) ==
    IF splits = <<>> THEN docs \o join_docs(cur, sep)
    ELSE
      LET d == Head(splits)
          len == Len(d)
          seplen == Len(sep)
          over == total + len + (IF Len(cur) > 0 THEN seplen ELSE 0) > size
          emit == over /\ Len(cur) > 0
          docs1 == IF emit THEN docs \o join_docs(cur, sep) ELSE docs
          w == IF emit THEN pop_window(cur, total, len, seplen, size, overlap)
               ELSE [cur |-> cur, total |-> total]
          cur1 == Append(w.cur, d)
          total1 == w.total + len + (IF Len(cur1) > 1 THEN seplen ELSE 0)
      IN  merge_splits(Tail(splits), sep, size, overlap, docs1, cur1, total1)

split_text(text, size, overlap) ==
    merge_splits(split_text_with_regex(text, Separator), Separator,
                 size, overlap, <<>>, <<>>, 0)

(***************************************************************************)
(* The splitter on its own: every text of up to MaxLen characters, every   *)
(* chunk_size up to MaxChunk and every chunk_overlap below it.             *)
(***************************************************************************)
Alphabet == {"a", "b", NL}

TextsUpTo(n) == UNION {[1..k -> Alphabet] : k \in 0..n}

NoChunk == [done |-> FALSE, segs |-> <<>>]

InitChunk ==
    /\ chunk_in \in {i \in [text : TextsUpTo(MaxLen), size : 1..MaxChunk,
                            overlap : 0..MaxChunk] : i.overlap < i.size}
    /\ chunk_out = NoChunk

\* texts = text_splitter.split_text(corpus_text)
Chunk ==
    /\ ~chunk_out.done
    /\ chunk_out' = [done |-> TRUE,
                     segs |-> split_text(chunk_in.text, chunk_in.size,
                                         chunk_in.overlap)]
    /\ UNCHANGED chunk_in

\* Removing the overlapping portions: each segment loses its longest prefix,
\* of at most overlap characters, that ends the text assembled so far.
Overlap(acc, s, overlap) ==
    LET m == {j \in 0..overlap : j <= Len(s) /\ j <= Len(acc) /\
                 SubSeq(acc, Len(acc) - j + 1, Len(acc)) = SubSeq(s, 1, j)}
    IN  CHOOSE j \in m : \A i \in m : i <= j

RECURSIVE Reassemble(_, _, _)
Reassemble(acc, segs, overlap) ==
    IF segs = <<>> THEN acc
    ELSE LET s == Head(segs)
         IN  Reassemble(acc \o SubSeq(s, Overlap(acc, s, overlap) + 1, Len(s)),
                        Tail(segs), overlap)

NonWs(t) == SelectSeq(t, LAMBDA ch : ch \notin Whitespace)

(***************************************************************************)
(* The corpus folder.  corpus/<name> is absent, a directory with nothing   *)
(* in it ("dir", what os.makedirs leaves), or a directory holding a        *)
(* persisted Chroma collection ("db") with its bag of stored texts.        *)
(***************************************************************************)
Names == {"c1", "c2"}
Sessions == {"s1"}
None == "<None>"

Absent == [kind |-> "absent", entries |-> EmptyBag]
EmptyDir == [kind |-> "dir", entries |-> EmptyBag]

\* The files folder: two text files, a file of white space, and a file
\* whose bytes are not UTF-8.
Files == {"fa", "fb", "fw", "fx"}
Decodable(f) == f # "fx"
FileContent(f) ==
    CASE f = "fa" -> <<"a">>
      [] f = "fb" -> <<"b">>
      [] f = "fw" -> <<SP>>
      [] OTHER -> <<>>

\* What st.multiselect holds when the button is pressed: distinct files in
\* the order selected.
Selections == {<<>>, <<"fa">>, <<"fa", "fb">>, <<"fw">>, <<"fx">>}

Queries == {<<"a">>, <<"b">>}

(***************************************************************************)
(* OllamaEmbeddings and Chroma.                                            *)
(***************************************************************************)
Count(t, ch) == Len(SelectSeq(t, LAMBDA x : x = ch))

\* The embedding of a text: deterministic for the one model in use.
embed(t) == <<Count(t, "a"), Count(t, "b")>>

\* Chroma's default distance (squared L2): smaller is more similar.
Distance(u, v) == (u[1] - v[1]) * (u[1] - v[1]) + (u[2] - v[2]) * (u[2] - v[2])

\* Chroma(persist_directory=...): the client creates the directory and the
\* collection when they are not there, and opens them when they are.
chroma_open(d) == [kind |-> "db", entries |-> d.entries]

\* os.makedirs(corpus_path, exist_ok=True)
makedirs(d) == IF d.kind = "absent" THEN EmptyDir ELSE d

RECURSIVE SeqToBag(_)
SeqToBag(texts) ==
    IF texts = <<>> THEN EmptyBag
    ELSE SetToBag({Head(texts)}) (+) SeqToBag(Tail(texts))

\* A build that replaces what is stored by the new texts.
add_texts_overwrite(d, texts) == [kind |-> "db", entries |-> SeqToBag(texts)]

\* collection.upsert of the texts under fresh ids: added to what is stored.
add_texts(d, texts) == [kind |-> "db", entries |-> d.entries (+) SeqToBag(texts)]

\* A search that ignores k and returns every stored text.
RECURSIVE similarity_search_all(_, _, _)
similarity_search_all(entries, query, k) ==
    IF BagToSet(entries) = {} THEN <<>>
    ELSE LET qv == embed(query)
             best == CHOOSE t \in BagToSet(entries) :
                        \A u \in BagToSet(entries) :
                            Distance(embed(t), qv) <= Distance(embed(u), qv)
         IN  <<best>>
             \o similarity_search_all(entries (-) SetToBag({best}), query, k)

\* db.similarity_search(query, k): the k nearest stored texts, nearest first,
\* all of them when fewer than k are stored.
RECURSIVE similarity_search(_, _, _)
similarity_search(entries, query, k) ==
    IF k <= 0 \/ BagToSet(entries) = {} THEN <<>>
    ELSE LET qv == embed(query)
             best == CHOOSE t \in BagToSet(entries) :
                        \A u \in BagToSet(entries) :
                            Distance(embed(t), qv) <= Distance(embed(u), qv)
         IN  <<best>> \o similarity_search(entries (-) SetToBag({best}), query, k - 1)

(***************************************************************************)
(* create_corpus_from_files and create_corpus_from_text.  Each gives the   *)
(* directory as the call leaves it and how the call ended: "ok" when it    *)
(* returned, else the exception that left it.  fail_at is the text whose   *)
(* embedding request fails (0: none does); empty_ok is whether the         *)
(* installed Chroma accepts an add of no texts (from_texts makes no batch  *)
(* of them) or raises ValueError on it (upsert of an empty list).          *)
(***************************************************************************)
BuildEnd(d, outcome, chunked, texts, calls) ==
    [d |-> d, outcome |-> outcome, chunked |-> chunked, segs |-> texts,
     embed_calls |-> calls]

\* embeddings.embed_documents(texts): one request per text, in order, the
\* first failure raised to the caller.
embed_documents_calls(texts, fail_at) ==
    IF fail_at \in 1..Len(texts) THEN fail_at ELSE Len(texts)

\* A build that catches the embedding failure and carries on.
create_corpus_from_text_swallow(d, corpus_text, fail_at, empty_ok) ==
    LET d1 == makedirs(d)
        texts == split_text(corpus_text, ChunkSize, ChunkOverlap)
        db == chroma_open(d1)
    IN  IF texts = <<>>
        THEN BuildEnd(db, IF empty_ok THEN "ok" ELSE "ValueError", TRUE, texts, 0)
        ELSE IF fail_at \in 1..Len(texts)
        THEN BuildEnd(db, "ok", TRUE, texts,
                      embed_documents_calls(texts, fail_at))
        ELSE BuildEnd(add_texts(db, texts), "ok", TRUE, texts,
                      embed_documents_calls(texts, fail_at))

create_corpus_from_text(d, corpus_text, fail_at, empty_ok) ==
    LET d1 == makedirs(d)
        texts == split_text(corpus_text, ChunkSize, ChunkOverlap)
        db == chroma_open(d1)
    IN  IF texts = <<>>
        THEN BuildEnd(db, IF empty_ok THEN "ok" ELSE "ValueError", TRUE, texts, 0)
        ELSE IF fail_at \in 1..Len(texts)
        THEN BuildEnd(db, "EmbeddingUnavailable", TRUE, texts,
                      embed_documents_calls(texts, fail_at))
        ELSE BuildEnd(add_texts(db, texts), "ok", TRUE, texts,
                      embed_documents_calls(texts, fail_at))

\* all_text += file_content + "\n\n", for each selected file in order
RECURSIVE all_text(_)
all_text(sel) ==
    IF sel = <<>> THEN <<>>
    ELSE FileContent(Head(sel)) \o <<NL, NL>> \o all_text(Tail(sel))

create_corpus_from_files(d, sel, fail_at, empty_ok) ==
    LET d1 == makedirs(d)
    IN  IF \E i \in 1..Len(sel) : ~Decodable(sel[i])
        THEN BuildEnd(d1, "UnicodeDecodeError", FALSE, <<>>, 0)
        ELSE create_corpus_from_text(d1, all_text(sel), fail_at, empty_ok)

(***************************************************************************)
(* get_corpus_context_from_db.                                             *)
(***************************************************************************)
QueryEnd(d, outcome, results, calls) ==
    [d |-> d, outcome |-> outcome, results |-> results, embed_calls |-> calls]

get_corpus_context_from_db(d, query, embed_fails) ==
    LET db == chroma_open(d)
    IN  IF embed_fails
        THEN QueryEnd(db, "EmbeddingUnavailable", <<>>, 1)
        ELSE QueryEnd(db, "ok", similarity_search(db.entries, query, TopK), 1)

\* "\n".join([doc.page_content for doc in results])
Returned(results) == join(results, <<NL>>)

(***************************************************************************)
(* get_corpus_context.  Every call works on the one collection under       *)
(* "./chroma_db", whatever file it is given.  The call gives the           *)
(* collection as it leaves it and how it ended: "ok" when it returned a    *)
(* value (returned: that value), else the exception that left it.          *)
(***************************************************************************)
\* The value line 543 returns; one symbol stands for its characters.
DecodeErrorText ==
    <<"Error: Unable to decode the corpus file. Please ensure it's a text file.">>

ContextEnd(db, outcome, decode_failed, segs, results, returned) ==
    [db |-> db, outcome |-> outcome, decode_failed |-> decode_failed,
     segs |-> segs, results |-> results, returned |-> returned]

get_corpus_context(db, corpus_file, query, embed_fails, empty_ok) ==
    LET texts == split_text(FileContent(corpus_file), ChunkSize, ChunkOverlap)
        db1 == db (+) SeqToBag(texts)
        results == similarity_search(db1, query, TopK)
    IN  IF ~Decodable(corpus_file)
        THEN ContextEnd(db, "ok", TRUE, <<>>, <<>>, DecodeErrorText)
        ELSE IF texts = <<>> /\ ~empty_ok
        THEN ContextEnd(db, "ValueError", FALSE, texts, <<>>, <<>>)
        ELSE IF embed_fails
        THEN ContextEnd(db, "EmbeddingUnavailable", FALSE, texts, <<>>, <<>>)
        ELSE ContextEnd(db1, "ok", FALSE, texts, results, Returned(results))

NoContext ==
    [op |-> "none", file |-> "", query |-> <<>>, outcome |-> "none",
     decode_failed |-> FALSE, segs |-> <<>>, results |-> <<>>,
     returned |-> <<>>, before |-> EmptyBag]

ContextIdle == chroma_db = EmptyBag /\ ctx = NoContext

(***************************************************************************)
(* The "Create Corpus from Files" handler taken one statement at a time.   *)
(* build.pc is the statement the script thread is at ("idle": the run is   *)
(* over and the page waits for the next click); build.steps lists the      *)
(* statements the run has completed; build.db is the collection held by    *)
(* the Chroma client of the run.  The client's texts reach the directory   *)
(* when db.persist() runs (a Chroma that writes through on add has them    *)
(* there one statement earlier).                                           *)
(***************************************************************************)
PipelineOrder ==
    <<"makedirs", "read", "chunk", "open", "embed", "add", "persist",
      "success", "rerun">>

\* A handler that reports and reruns before db.persist().
next_stage_report_first(stage) ==
    CASE stage = "makedirs" -> "read"
      [] stage = "read" -> "chunk"
      [] stage = "chunk" -> "open"
      [] stage = "open" -> "embed"
      [] stage = "embed" -> "add"
      [] stage = "add" -> "success"
      [] stage = "success" -> "rerun"
      [] stage = "rerun" -> "persist"
      [] OTHER -> "idle"

\* The statement that follows a completed one: lines 633, 637-641, 650-652,
\* 656 (client, embedding requests, upsert), 657, 626, 627.
next_stage(stage) ==
    CASE stage = "makedirs" -> "read"
      [] stage = "read" -> "chunk"
      [] stage = "chunk" -> "open"
      [] stage = "open" -> "embed"
      [] stage = "embed" -> "add"
      [] stage = "add" -> "persist"
      [] stage = "persist" -> "success"
      [] stage = "success" -> "rerun"
      [] OTHER -> "idle"

NoBuild ==
    [pc |-> "idle", name |-> "", sel |-> <<>>, fail_at |-> 0, text |-> <<>>,
     texts |-> <<>>, db |-> Absent, steps |-> <<>>, reported |-> FALSE,
     outcome |-> "none"]

BuildIdle == build = NoBuild

(***************************************************************************)
(* remove_model_ui.  get_available_models() lists the installed models     *)
(* and is memoized until get_available_models.clear(); st.session_state    *)
(* holds selected_model, the value of the selectbox under its key          *)
(* "remove_model_ui_model_selector", and available_models.  A key that is  *)
(* not in st.session_state is Missing.                                     *)
(***************************************************************************)
AllModels == <<"m1", "m2", "m3">>
Models == {AllModels[i] : i \in 1..Len(AllModels)}
Missing == "<missing>"

\* The installed models in the order the server lists them.
model_list(installed) == SelectSeq(AllModels, LAMBDA m : m \in installed)

NoCache == [valid |-> FALSE, value |-> <<>>]

\* get_available_models(): the memoized list, fetched when none is held.
get_available_models(cache, installed) ==
    IF cache.valid THEN cache
    ELSE [valid |-> TRUE, value |-> model_list(installed)]

InList(m, list) == \E i \in 1..Len(list) : list[i] = m

\* available_models[0] if available_models else None
first_or_none(list) == IF list # <<>> THEN list[1] ELSE None

\* Lines 394-412: selected_model is initialized when missing, overwritten
\* by the value held under the selectbox key when that key is present, and
\* the selectbox is drawn at the index of selected_model (0 when it is not
\* an option); the value it returns is then held under its key.
draw_selectbox(ss, available_models) ==
    LET s1 == IF ss.selected_model = Missing
              THEN [ss EXCEPT !.selected_model = first_or_none(available_models)]
              ELSE ss
        s2 == IF s1.selectbox # Missing
              THEN [s1 EXCEPT !.selected_model = s1.selectbox]
              ELSE s1
        selected == IF available_models = <<>> THEN None
                    ELSE IF InList(s2.selected_model, available_models)
                    THEN s2.selected_model
                    ELSE available_models[1]
    IN  [s2 EXCEPT !.selectbox = selected]

\* One run of remove_model_ui: pressed is whether "Remove Model" was
\* clicked, confirm the checkbox, remove_ok whether the server carries out
\* the removal.  After a removal st.rerun() runs the script once more.
remove_model_ui(ss, cache, installed, pressed, confirm, remove_ok) ==
    LET c0 == get_available_models(cache, installed)
        s0 == draw_selectbox(ss, c0.value)
        selected_model == s0.selectbox
        removed == remove_ok /\ selected_model \in installed
        installed1 == IF removed THEN installed \ {selected_model} ELSE installed
        c1 == get_available_models(NoCache, installed1)
        s1 == [s0 EXCEPT !.available_models = c1.value]
        s2 == IF ~InList(selected_model, c1.value)
              THEN [s1 EXCEPT !.selected_model = first_or_none(c1.value)]
              ELSE s1
    IN  IF pressed /\ confirm /\ selected_model # None
        THEN [ss |-> draw_selectbox(s2, get_available_models(c1, installed1).value),
              cache |-> c1, installed |-> installed1,
              model |-> selected_model, removed |-> removed, outcome |-> "rerun"]
        ELSE [ss |-> s0, cache |-> c0, installed |-> installed,
              model |-> selected_model, removed |-> FALSE,
              outcome |-> IF pressed /\ confirm THEN "st.error" ELSE "drawn"]

NoSessionState ==
    [selected_model |-> Missing, selectbox |-> Missing,
     available_models |-> <<Missing>>]

NoModelRun == [op |-> "none", model |-> None, removed |-> FALSE, outcome |-> "none"]

ModelsIdle ==
    /\ ollama_models = {}
    /\ models_cache = NoCache
    /\ session_state = NoSessionState
    /\ mrun = NoModelRun

(***************************************************************************)
(* os.rename and shutil.rmtree on directories (POSIX).                     *)
(***************************************************************************)
os_rename(dk, old, new) ==
    IF dk[old].kind = "absent" THEN [disk |-> dk, outcome |-> "FileNotFoundError"]
    ELSE IF new = old THEN [disk |-> dk, outcome |-> "ok"]
    ELSE IF dk[new].kind = "db" THEN [disk |-> dk, outcome |-> "OSError"]
    ELSE [disk |-> [dk EXCEPT ![new] = dk[old], ![old] = Absent], outcome |-> "ok"]

\* A removal that reports success and removes nothing.
rmtree_nothing(dk, c) ==
    IF dk[c].kind = "absent" THEN [disk |-> dk, outcome |-> "FileNotFoundError"]
    ELSE [disk |-> dk, outcome |-> "ok"]

rmtree(dk, c) ==
    IF dk[c].kind = "absent" THEN [disk |-> dk, outcome |-> "FileNotFoundError"]
    ELSE [disk |-> [dk EXCEPT ![c] = Absent], outcome |-> "ok"]

(***************************************************************************)
(* manage_corpus: what one run of the script does for the widget that      *)
(* triggered it.  The list of corpora is read anew at the top of every     *)
(* run, and a button exists in a run only if the run renders it: a click   *)
(* that comes from a page rendered earlier, on a corpus no longer listed,  *)
(* finds no button and does nothing.                                       *)
(***************************************************************************)
\* os.path.isdir(os.path.join(corpus_folder, f)), for f in os.listdir
listing(dk) == {c \in Names : dk[c].kind # "absent"}

corpus_list == listing(disk)

\* A delete that does not look at the list first.
delete_button_unlisted(dk, c) == rmtree(dk, c)

\* st.button("delete_corpus_<c>") inside  for corpus in corpus_list
delete_button(dk, c) ==
    IF c \in listing(dk) THEN rmtree(dk, c)
    ELSE [disk |-> dk, outcome |-> "noop"]

\* st.button("Confirm Rename") with new_corpus_name in the text input
confirm_rename(dk, old, new) ==
    IF new = "" THEN [disk |-> dk, outcome |-> "st.error"]
    ELSE os_rename(dk, old, new)

\* st.button("Create Corpus from Files")
create_corpus_button(dk, name, sel, fail_at, empty_ok) ==
    IF sel = <<>> \/ name = ""
    THEN [disk |-> dk, outcome |-> "st.error", chunked |-> FALSE,
          segs |-> <<>>, embed_calls |-> 0]
    ELSE LET r == create_corpus_from_files(dk[name], sel, fail_at, empty_ok)
         IN  [disk |-> [dk EXCEPT ![name] = r.d], outcome |-> r.outcome,
              chunked |-> r.chunked, segs |-> r.segs,
              embed_calls |-> r.embed_calls]

(***************************************************************************)
(* The state machine.  last records the most recent run: which widget or   *)
(* call, its arguments, how it ended ("ok", "noop" when the run rendered   *)
(* no such widget, "st.error", or the exception raised), whether           *)
(* st.success was shown, what the splitter, the embedder and the search    *)
(* produced, the string returned, and fault: the embedding request of this run that the         *)
(* service failed (0: none).                                               *)
(***************************************************************************)
NoLast ==
    [op |-> "none", name |-> "", arg |-> <<>>, outcome |-> "none",
     success |-> FALSE, results |-> <<>>, returned |-> <<>>,
     chunked |-> FALSE, segs |-> <<>>, embed_calls |-> 0, fault |-> 0]

\* rt.phase: "built" after a build that succeeded (entries: what the corpus
\* then held; fresh: it held nothing before), "deleted" when the very next
\* run deleted that corpus, then "rebuilt" or "rebuild_failed" when the run
\* after that built it again from the same selection with the embedding
\* service answering; "none" after any other run.
NoRoundTrip ==
    [phase |-> "none", name |-> "", sel |-> <<>>, entries |-> EmptyBag,
     fresh |-> FALSE]

Init ==
    /\ disk = [c \in Names |-> Absent]
    /\ rename_corpus = [s \in Sessions |-> None]
    /\ last = NoLast
    /\ rt = NoRoundTrip
    /\ chroma_empty_ok \in BOOLEAN
    /\ chunk_in = [text |-> <<>>, size |-> ChunkSize, overlap |-> ChunkOverlap]
    /\ chunk_out = NoChunk
    /\ ContextIdle
    /\ BuildIdle
    /\ ModelsIdle

\* The pencil button of corpus c in session s.
RenameRequest(s, c) ==
    /\ rename_corpus' = IF c \in corpus_list
                        THEN [rename_corpus EXCEPT ![s] = c]
                        ELSE rename_corpus
    /\ last' = [NoLast EXCEPT !.op = "rename_request", !.name = c,
                    !.outcome = IF c \in corpus_list THEN "ok" ELSE "noop"]
    /\ rt' = NoRoundTrip
    /\ UNCHANGED <<disk, chroma_empty_ok, chunk_in, chunk_out, otherVars>>

\* The bin button of corpus c.
DeleteCorpus(c) ==
    LET r == delete_button(disk, c)
    IN  /\ disk' = r.disk
        /\ last' = [NoLast EXCEPT !.op = "delete", !.name = c,
                        !.outcome = r.outcome, !.success = (r.outcome = "ok")]
        /\ rt' = IF r.outcome = "ok" /\ rt.phase = "built" /\ rt.name = c
                 THEN [rt EXCEPT !.phase = "deleted"]
                 ELSE NoRoundTrip
        /\ UNCHANGED <<rename_corpus, chroma_empty_ok, chunk_in, chunk_out, otherVars>>

\* "Confirm Rename" in session s, rendered while a rename is pending there.
ConfirmRename(s, new) ==
    /\ rename_corpus[s] # None
    /\ LET old == rename_corpus[s]
           r == confirm_rename(disk, old, new)
       IN  /\ disk' = r.disk
           /\ rename_corpus' = IF r.outcome = "ok"
                               THEN [rename_corpus EXCEPT ![s] = None]
                               ELSE rename_corpus
           /\ last' = [NoLast EXCEPT !.op = "confirm_rename", !.name = old,
                           !.arg = <<new>>, !.outcome = r.outcome,
                           !.success = (r.outcome = "ok")]
    /\ rt' = NoRoundTrip
    /\ UNCHANGED <<chroma_empty_ok, chunk_in, chunk_out, otherVars>>

\* The texts stored in the corpus folder, all collections together.
RECURSIVE StoredIn(_, _)
StoredIn(dk, names) ==
    IF names = {} THEN 0
    ELSE LET c == CHOOSE x \in names : TRUE
         IN  BagCardinality(dk[c].entries) + StoredIn(dk, names \ {c})

Stored(dk) == StoredIn(dk, Names)

\* The texts a build of the selection would have to embed.
TextsOf(sel) ==
    IF \E i \in 1..Len(sel) : ~Decodable(sel[i]) THEN <<>>
    ELSE split_text(all_text(sel), ChunkSize, ChunkOverlap)

\* "Create Corpus from Files" with the selection and the name typed.
CreateCorpus(name, sel, fail_at) ==
    LET r == create_corpus_button(disk, name, sel, fail_at, chroma_empty_ok)
    IN  /\ Stored(r.disk) <= MaxEntries
        /\ disk' = r.disk
        /\ last' = [NoLast EXCEPT !.op = "create", !.name = name, !.arg = sel,
                        !.outcome = r.outcome, !.success = (r.outcome = "ok"),
                        !.chunked = r.chunked, !.segs = r.segs,
                        !.embed_calls = r.embed_calls,
                        !.fault = IF r.outcome = "st.error" THEN 0 ELSE fail_at]
        /\ rt' = IF rt.phase = "deleted" /\ rt.name = name /\ rt.sel = sel
                    /\ fail_at = 0
                 THEN [rt EXCEPT !.phase = IF r.outcome = "ok" THEN "rebuilt"
                                           ELSE "rebuild_failed"]
                 ELSE IF r.outcome = "ok"
                 THEN [phase |-> "built", name |-> name, sel |-> sel,
                       entries |-> r.disk[name].entries,
                       fresh |-> disk[name].entries = EmptyBag]
                 ELSE NoRoundTrip
        /\ UNCHANGED <<rename_corpus, chroma_empty_ok, chunk_in, chunk_out, otherVars>>

\* A caller asks for the context of corpus c.
QueryCorpus(c, query, embed_fails) ==
    LET r == get_corpus_context_from_db(disk[c], query, embed_fails)
    IN  /\ disk' = [disk EXCEPT ![c] = r.d]
        /\ last' = [NoLast EXCEPT !.op = "query", !.name = c, !.arg = query,
                        !.outcome = r.outcome, !.results = r.results,
                        !.returned = Returned(r.results),
                        !.embed_calls = r.embed_calls,
                        !.fault = IF embed_fails THEN 1 ELSE 0]
        /\ rt' = NoRoundTrip
        /\ UNCHANGED <<rename_corpus, chroma_empty_ok, chunk_in, chunk_out, otherVars>>

Next ==
    \/ \E s \in Sessions, c \in Names : RenameRequest(s, c)
    \/ \E c \in Names : DeleteCorpus(c)
    \/ \E s \in Sessions, new \in Names \cup {""} : ConfirmRename(s, new)
    \/ \E name \in Names \cup {""}, sel \in Selections :
          \E fail_at \in 0..Len(TextsOf(sel)) : CreateCorpus(name, sel, fail_at)
    \/ \E c \in Names, query \in Queries, embed_fails \in BOOLEAN :
          QueryCorpus(c, query, embed_fails)

Spec == Init /\ [][Next]_vars

\* The splitter alone.
InitSplitter ==
    /\ InitChunk
    /\ disk = [c \in Names |-> Absent]
    /\ rename_corpus = [s \in Sessions |-> None]
    /\ last = NoLast
    /\ rt = NoRoundTrip
    /\ chroma_empty_ok = TRUE
    /\ ContextIdle
    /\ BuildIdle
    /\ ModelsIdle

NextSplitter ==
    Chunk /\ UNCHANGED <<disk, rename_corpus, last, rt, chroma_empty_ok, otherVars>>

SpecSplitter == InitSplitter /\ [][NextSplitter]_vars

(***************************************************************************)
(* Calls of get_corpus_context, one after another, in one working          *)
(* directory.                                                              *)
(***************************************************************************)
ManagerIdle ==
    /\ disk = [c \in Names |-> Absent]
    /\ rename_corpus = [s \in Sessions |-> None]
    /\ last = NoLast
    /\ rt = NoRoundTrip

ChunkIdle ==
    /\ chunk_in = [text |-> <<>>, size |-> ChunkSize, overlap |-> ChunkOverlap]
    /\ chunk_out = NoChunk

InitContext ==
    /\ ManagerIdle
    /\ ChunkIdle
    /\ chroma_empty_ok \in BOOLEAN
    /\ ContextIdle
    /\ BuildIdle
    /\ ModelsIdle

GetCorpusContext(corpus_file, query, embed_fails) ==
    LET r == get_corpus_context(chroma_db, corpus_file, query, embed_fails,
                                chroma_empty_ok)
    IN  /\ BagCardinality(r.db) <= MaxEntries
        /\ chroma_db' = r.db
        /\ ctx' = [op |-> "get_corpus_context", file |-> corpus_file,
                   query |-> query, outcome |-> r.outcome,
                   decode_failed |-> r.decode_failed, segs |-> r.segs,
                   results |-> r.results, returned |-> r.returned,
                   before |-> chroma_db]
        /\ UNCHANGED <<managerVars, chroma_empty_ok, chunkVars, build, modelVars>>

NextContext ==
    \E corpus_file \in Files, query \in Queries, embed_fails \in BOOLEAN :
        GetCorpusContext(corpus_file, query, embed_fails)

SpecContext == InitContext /\ [][NextContext]_vars

(***************************************************************************)
(* One session's script thread running the "Create Corpus from Files"      *)
(* handler (lines 622-629, 631-643, 645-657) statement by statement.  An   *)
(* exception ends the run where it is raised.                              *)
(***************************************************************************)
InitBuild ==
    /\ ManagerIdle
    /\ ChunkIdle
    /\ chroma_empty_ok \in BOOLEAN
    /\ ContextIdle
    /\ BuildIdle
    /\ ModelsIdle

Done(stage) == [build EXCEPT !.pc = next_stage(stage),
                             !.steps = Append(build.steps, stage)]

Raise(stage, exception) == [build EXCEPT !.pc = "idle", !.outcome = exception]

buildFrame ==
    <<rename_corpus, last, rt, chroma_empty_ok, chunkVars, contextVars, modelVars>>

\* Lines 622-623, 628-629: the button is pressed with the name and selection.
PressCreate(name, sel, fail_at) ==
    /\ build.pc = "idle"
    /\ Stored(disk) + Len(TextsOf(sel)) <= MaxEntries
    /\ build' = IF sel # <<>> /\ name # ""
                THEN [NoBuild EXCEPT !.pc = "makedirs", !.name = name,
                                     !.sel = sel, !.fail_at = fail_at]
                ELSE [NoBuild EXCEPT !.outcome = "st.error"]
    /\ UNCHANGED <<disk, buildFrame>>

\* Line 633.
StepMakedirs ==
    /\ build.pc = "makedirs"
    /\ disk' = [disk EXCEPT ![build.name] = makedirs(@)]
    /\ build' = Done("makedirs")
    /\ UNCHANGED buildFrame

\* Lines 636-641.
StepRead ==
    /\ build.pc = "read"
    /\ build' = IF \E i \in 1..Len(build.sel) : ~Decodable(build.sel[i])
                THEN Raise("read", "UnicodeDecodeError")
                ELSE [Done("read") EXCEPT !.text = all_text(build.sel)]
    /\ UNCHANGED <<disk, buildFrame>>

\* Lines 647-652.
StepChunk ==
    /\ build.pc = "chunk"
    /\ disk' = [disk EXCEPT ![build.name] = makedirs(@)]
    /\ build' = [Done("chunk") EXCEPT
                    !.texts = split_text(build.text, ChunkSize, ChunkOverlap)]
    /\ UNCHANGED buildFrame

\* Line 656, the client: Chroma(persist_directory=corpus_path).
StepOpen ==
    /\ build.pc = "open"
    /\ disk' = [disk EXCEPT ![build.name] = chroma_open(@)]
    /\ build' = IF build.texts = <<>> /\ ~chroma_empty_ok
                THEN [Raise("open", "ValueError") EXCEPT
                        !.db = chroma_open(disk[build.name])]
                ELSE [Done("open") EXCEPT !.db = chroma_open(disk[build.name])]
    /\ UNCHANGED buildFrame

\* Line 656, embeddings.embed_documents(texts).
StepEmbed ==
    /\ build.pc = "embed"
    /\ build' = IF build.fail_at \in 1..Len(build.texts)
                THEN Raise("embed", "EmbeddingUnavailable")
                ELSE Done("embed")
    /\ UNCHANGED <<disk, buildFrame>>

\* Line 656, the upsert into the client's collection.
StepAdd ==
    /\ build.pc = "add"
    /\ build' = [Done("add") EXCEPT !.db = add_texts(build.db, build.texts)]
    /\ UNCHANGED <<disk, buildFrame>>

\* Line 657.
StepPersist ==
    /\ build.pc = "persist"
    /\ disk' = [disk EXCEPT ![build.name] = build.db]
    /\ build' = Done("persist")
    /\ UNCHANGED buildFrame

\* Line 626.
StepSuccess ==
    /\ build.pc = "success"
    /\ build' = [Done("success") EXCEPT !.reported = TRUE]
    /\ UNCHANGED <<disk, buildFrame>>

\* Line 627: the run ends and the page is drawn again.
StepRerun ==
    /\ build.pc = "rerun"
    /\ build' = [Done("rerun") EXCEPT !.outcome = "ok"]
    /\ UNCHANGED <<disk, buildFrame>>

NextBuild ==
    \/ \E name \in Names \cup {""}, sel \in Selections :
          \E fail_at \in 0..Len(TextsOf(sel)) : PressCreate(name, sel, fail_at)
    \/ StepMakedirs
    \/ StepRead
    \/ StepChunk
    \/ StepOpen
    \/ StepEmbed
    \/ StepAdd
    \/ StepPersist
    \/ StepSuccess
    \/ StepRerun

SpecBuild == InitBuild /\ [][NextBuild]_vars

(***************************************************************************)
(* One session on the "Remove a Model" page.                               *)
(***************************************************************************)
InitModels ==
    /\ ManagerIdle
    /\ ChunkIdle
    /\ chroma_empty_ok = TRUE
    /\ ContextIdle
    /\ BuildIdle
    /\ ollama_models \in SUBSET Models
    /\ models_cache = NoCache
    /\ session_state = NoSessionState
    /\ mrun = NoModelRun

modelsFrame == <<managerVars, chroma_empty_ok, chunkVars, contextVars, build>>

RunPage(op, ss, pressed, confirm, remove_ok) ==
    LET r == remove_model_ui(ss, models_cache, ollama_models, pressed, confirm,
                             remove_ok)
    IN  /\ session_state' = r.ss
        /\ models_cache' = r.cache
        /\ ollama_models' = r.installed
        /\ mrun' = [op |-> op, model |-> r.model, removed |-> r.removed,
                    outcome |-> r.outcome]
        /\ UNCHANGED modelsFrame

\* The page is opened or drawn again with nothing clicked.
ViewPage == RunPage("view", session_state, FALSE, FALSE, FALSE)

\* The user picks m in the selectbox the page shows.
SelectModel(m) ==
    /\ session_state.selectbox # Missing
    /\ InList(m, models_cache.value)
    /\ RunPage("select", [session_state EXCEPT !.selectbox = m], FALSE, FALSE, FALSE)

\* The user clicks "Remove Model" on the page shown.
PressRemove(confirm, remove_ok) ==
    /\ session_state.selectbox # Missing
    /\ RunPage("remove", session_state, TRUE, confirm, remove_ok)

\* pull_models, lines 340-357: a model is pulled; the memoized list stays.
PullModel(m) ==
    /\ m \notin ollama_models
    /\ ollama_models' = ollama_models \cup {m}
    /\ mrun' = [NoModelRun EXCEPT !.op = "pull", !.model = m]
    /\ UNCHANGED <<models_cache, session_state, modelsFrame>>

NextModels ==
    \/ ViewPage
    \/ \E m \in Models : SelectModel(m)
    \/ \E confirm \in BOOLEAN, remove_ok \in BOOLEAN : PressRemove(confirm, remove_ok)
    \/ \E m \in Models : PullModel(m)

SpecModels == InitModels /\ [][NextModels]_vars

(***************************************************************************)
(* Properties.                                                             *)
(***************************************************************************)
Min(a, b) == IF a <= b THEN a ELSE b

Present(d) == d.kind # "absent"

\* A corpus with a fully built index: a collection holding its segments.
Built(d) == d.kind = "db" /\ d.entries # EmptyBag

Failed(outcome) == outcome \notin {"ok", "noop", "none"}

\* C1: a query on a name that is not under the corpus root ends in a
\* failure, never in a result, and leaves the name absent.
C1_QueryAbsentFails ==
    [][(last'.op = "query" /\ ~Present(disk[last'.name]))
        => (Failed(last'.outcome) /\ ~Present(disk'[last'.name]))]_vars

\* C2: confirming a rename to a name that already exists (the old name
\* included) fails, reports no success and leaves the folder as it was.
C2_RenameConflictRejected ==
    [][(last'.op = "confirm_rename" /\ last'.arg[1] \in Names
        /\ Present(disk[last'.arg[1]]))
        => (Failed(last'.outcome) /\ ~last'.success /\ disk' = disk)]_vars

\* C3: a build under a name keeps every text the name stored before (a
\* build that succeeds adds its segments to them, one more copy each; one
\* that fails adds nothing) and touches no other name.
C3_BuildMerges ==
    [][(last'.op = "create" /\ last'.name \in Names)
        => LET c == last'.name
           IN  /\ \A o \in Names \ {c} : disk'[o] = disk[o]
               /\ disk[c].entries \sqsubseteq disk'[c].entries
               /\ disk'[c].entries =
                    IF last'.success
                    THEN disk[c].entries (+) SeqToBag(last'.segs)
                    ELSE disk[c].entries]_vars

\* A build that succeeded on a corpus already holding one of its segments:
\* the segment is now stored twice.
C3_Witness ==
    /\ last.op = "create" /\ last.success /\ last.segs # <<>>
    /\ CopiesIn(last.segs[1], disk[last.name].entries) >= 2

\* C4: a build that fails part-way leaves its name absent or fully built,
\* never a directory that is listed without a built index.
C4_FailedBuildLeavesNothing ==
    (last.op = "create" /\ Failed(last.outcome) /\ last.outcome # "st.error")
        => (~Present(disk[last.name]) \/ Built(disk[last.name]))

\* C5: a delete of a name that is not present is no error and changes
\* nothing; a delete of a present name removes that corpus and no other.
C5_DeleteIdempotent ==
    [][last'.op = "delete"
        => LET c == last'.name
           IN  IF Present(disk[c])
               THEN disk' = [disk EXCEPT ![c] = Absent] /\ last'.outcome = "ok"
               ELSE disk' = disk /\ ~Failed(last'.outcome)]_vars

\* A delete of a name that is not there, beside a corpus that is.
C5_Witness ==
    /\ last.op = "delete" /\ last.outcome = "noop"
    /\ \E c \in Names : Built(disk[c])

\* The nearest stored text, as a list of at most one.
TopMatch(entries, query) == similarity_search(entries, query, 1)

\* C6 as stated: after build, delete, build of the same documents under one
\* name, the corpus holds what it held after the first build, whatever the
\* name held before.
C6_RoundTripAny ==
    rt.phase = "rebuilt" => disk[rt.name].entries = rt.entries

\* C6: build, delete, build of the same documents under one name: the
\* second build succeeds, and the corpus then holds exactly the segments of
\* the documents, nothing of the deleted corpus; they are the entries of the
\* first build, with the same top match for every query, when the name
\* held nothing before the first build.
C6_RoundTrip ==
    /\ rt.phase # "rebuild_failed"
    /\ rt.phase = "rebuilt"
        => /\ disk[rt.name].entries = SeqToBag(TextsOf(rt.sel))
           /\ rt.fresh
                => /\ disk[rt.name].entries = rt.entries
                   /\ \A q \in Queries :
                        TopMatch(disk[rt.name].entries, q) = TopMatch(rt.entries, q)

\* A name rebuilt after its deletion, from documents that have segments.
C6_Witness ==
    rt.phase = "rebuilt" /\ rt.fresh /\ disk[rt.name].entries # EmptyBag

\* C7: a build whose documents chunk to no segment fails, reports no
\* success and creates nothing.
C7_EmptyBuildRejected ==
    [][(last'.op = "create" /\ last'.chunked /\ last'.segs = <<>>)
        => (Failed(last'.outcome) /\ ~last'.success /\ disk' = disk)]_vars

\* The results are ordered nearest first.
Ranked(results, query) ==
    \A i, j \in 1..Len(results) :
        i <= j => Distance(embed(results[i]), embed(query))
                    <= Distance(embed(results[j]), embed(query))

\* C8: a query on a present corpus of n texts, the embedding service
\* answering, returns without error min(TopK, n) of the stored texts, the
\* nearest ones, nearest first; all of them when n < TopK.
C8_TopK ==
    [][(last'.op = "query" /\ Present(disk[last'.name]) /\ last'.fault = 0)
        => LET entries == disk[last'.name].entries
               n == BagCardinality(entries)
               res == last'.results
               rest == entries (-) SeqToBag(res)
           IN  /\ last'.outcome = "ok"
               /\ Len(res) = Min(TopK, n)
               /\ SeqToBag(res) \sqsubseteq entries
               /\ Ranked(res, last'.arg)
               /\ \A t \in BagToSet(rest) : Ranked(res \o <<t>>, last'.arg)
               /\ n < TopK => SeqToBag(res) = entries]_vars

\* A query on a corpus of two different texts: both returned, nearer first.
C8_Witness ==
    /\ last.op = "query" /\ last.outcome = "ok"
    /\ BagCardinality(disk[last.name].entries) = 2
    /\ Len(last.results) = 2
    /\ Distance(embed(last.results[1]), embed(last.arg))
         < Distance(embed(last.results[2]), embed(last.arg))

Cat(segs) == join(segs, <<>>)

RECURSIVE IsSubseq(_, _)
IsSubseq(a, b) ==
    IF a = <<>> THEN TRUE
    ELSE IF b = <<>> THEN FALSE
    ELSE IF Head(a) = Head(b) THEN IsSubseq(Tail(a), Tail(b))
    ELSE IsSubseq(a, Tail(b))

C10_EmbeddingFailureSurfaces ==
    [][(last'.op \in {"create", "query"} /\ last'.fault > 0)
        => /\ last'.outcome = "EmbeddingUnavailable"
           /\ ~last'.success
           /\ last'.results = <<>>
           /\ last'.embed_calls = last'.fault
           /\ \A c \in Names : disk'[c].entries = disk[c].entries]_vars

\* A build on a corpus that holds texts, stopped by the embedding service.
C10_Witness ==
    /\ last.op = "create" /\ last.fault > 0
    /\ last.outcome = "EmbeddingUnavailable"
    /\ disk[last.name].entries # EmptyBag

\* C11: a call of get_corpus_context whose file cannot be decoded ends in a
\* failure (an outcome other than a normal return) and hands the caller no
\* context text.
C11_DecodeFailureSurfaces ==
    (ctx.op = "get_corpus_context" /\ ctx.decode_failed)
        => (Failed(ctx.outcome) /\ ctx.returned = <<>>)

\* C15: the segments a successful get_corpus_context call returns are
\* segments of the file it was given, each at most as often as the file has
\* it: nothing of another file and nothing a previous call stored.
C15_OnlyThisFile ==
    (ctx.op = "get_corpus_context" /\ ctx.outcome = "ok" /\ ~ctx.decode_failed)
        => SeqToBag(ctx.results) \sqsubseteq SeqToBag(ctx.segs)

\* Whether part is a run of consecutive characters of text.
Contains(text, part) ==
    \E a \in 1..(Len(text) + 1) :
        \E b \in (a - 1)..Len(text) : SubSeq(text, a, b) = part

\* C12: after a successful build every segment handed to the index is text
\* of one of the selected documents: no segment runs across the blank-line
\* separator from one document into the next.
C12_NoCrossDocumentBleed ==
    (last.op = "create" /\ last.outcome = "ok")
        => \A k \in 1..Len(last.segs) :
              \E i \in 1..Len(last.arg) :
                  Contains(FileContent(last.arg[i]), last.segs[k])

\* C14: in every session a pending rename names a corpus that is present.
C14_PendingRenamePresent ==
    \A s \in Sessions :
        rename_corpus[s] # None => Present(disk[rename_corpus[s]])

IsPrefix(a, b) == Len(a) <= Len(b) /\ SubSeq(b, 1, Len(a)) = a

Persisted == disk[build.name] = build.db

C16_SelectedModelRefreshed ==
    (mrun.op = "remove" /\ mrun.removed)
        => (\/ session_state.selected_model = None
            \/ InList(session_state.selected_model, model_list(ollama_models)))

====
